---- MODULE Spec2Model ----
(***************************************************************************)
(* Model of the orchestration pipeline of backend/llm_graph.py: one        *)
(* invocation of the compiled graph `agent` on an AgentState.  The three   *)
(* formatting nodes, the router with its conditional edges, and the three  *)
(* generator nodes with their calls to the language model.                 *)
(*                                                                         *)
(* Texts are modelled structurally: a rendered text is the sequence of the *)
(* entries that the Python "".join(...) concatenates, each entry a record  *)
(* of the fields its f-string interpolates.  A key of the state dict that  *)
(* was never written is Absent.                                            *)
(***************************************************************************)
EXTENDS Integers, Sequences, FiniteSets, TLC

\* ------------------------------------------------------------------ bounds
MaxChartLen == 41
MaxNews == 3
MaxDocs == 3

\* ------------------------------------------------------- program constants
\* llm_graph.py:64-65  "if len(chart) > 20: step = math.ceil(len(chart) / 20)"
ChartLimit == 20

ValidModes == {"overview", "ask_AI", "history"}
NoMode == "<None>"
Modes == ValidModes \cup {"unknown", NoMode}
Symbols == {"BTC", "ETH"}
IndKeys == {"start_price", "end_price", "return_pct", "max_drawdown_pct"}

\* ------------------------------------------------------------ input values
\* price in thousandths of a dollar
PriceOf(i) == 42000000 + (((i * 35) % 700) - (i * 12)) * 1000 + ((i * 334) % 1000)
ChartOf(L) == [i \in 1..L |-> [date |-> i, price |-> PriceOf(i)]]
Charts == {ChartOf(L) : L \in 0..MaxChartLen}

NewsItem(k) == [published_at |-> "d" \o ToString(k), title |-> "t" \o ToString(k),
                snippet |-> "s" \o ToString(k), url |-> "u" \o ToString(k)]
NewsOf(n, o) == [i \in 1..n |-> NewsItem((o + i) % 2)]
NewsLists == {NewsOf(n, o) : n \in 0..MaxNews, o \in 0..1}

Doc(k) == [title |-> "T" \o ToString(k), snippet |-> "S" \o ToString(k),
           content |-> "C" \o ToString(k), url |-> "U" \o ToString(k),
           published_at |-> "P" \o ToString(k)]
DocsOf(n, o) == [i \in 1..n |-> Doc((o + i) % 2)]
DocLists == {DocsOf(n, o) : n \in 0..MaxDocs, o \in 0..1}

FullIndicators == [k \in IndKeys |-> 1]
EmptyIndicators == [k \in {} |-> 1]
IndicatorValues == {FullIndicators, EmptyIndicators}

\* what client.chat.completions.create can do: raise, or return a message
\* whose content is None or a string (a sequence of characters)
Contents == { <<"a">>, <<" ", "b", " ">>, <<" ">> }
LLMResults == {[kind |-> "raise"], [kind |-> "none"]}
                \cup {[kind |-> "text", content |-> c] : c \in Contents}

\* ------------------------------------------------------------ state
VARIABLES mode, symbol, indicators, chart, news, docs, question,
          chart_text, news_text, context_text, answer,
          pc, log, calls, draft_text, final, failure,
          response, other

vars == <<mode, symbol, indicators, chart, news, docs, question,
          chart_text, news_text, context_text, answer,
          pc, log, calls, draft_text, final, failure,
          response, other>>

inputs == <<mode, symbol, indicators, chart, news, docs, question>>

\* what lies outside one agent.invoke: the endpoint's response and a second request
outer == <<response, other>>

Absent == [present |-> FALSE, val |-> <<>>]
Val(v) == [present |-> TRUE, val |-> v]

\* the local holding the response of the last pass (`answer` in overview, `final` in
\* ask_AI and history) before it has been assigned
NoReply == [kind |-> "unassigned"]

\* no second request in flight
NoRequest == [pc |-> "none"]

\* ------------------------------------------------------------ pure helpers
Ceil(a, b) == IF a % b = 0 THEN a \div b ELSE (a \div b) + 1

\* f'{price:.2f}' : thousandths rounded to hundredths
Fmt2(p) == (p + 5) \div 10

\* Python chart[::step]: elements at 0-based indices 0, step, 2*step, ...
RECURSIVE Stride(_, _, _)
Stride(s, i, step) == IF i > Len(s) THEN <<>>
                      ELSE <<s[i]>> \o Stride(s, i + step, step)

\* the stride of llm_client.summarize_price_action: floor instead of ceil
Sample_floor(c) == IF Len(c) > ChartLimit
                     THEN Stride(c, 1, IF Len(c) \div ChartLimit < 1 THEN 1 ELSE Len(c) \div ChartLimit)
                     ELSE c
Sample(c) == IF Len(c) > ChartLimit THEN Stride(c, 1, Ceil(Len(c), ChartLimit)) ELSE c

ChartLine(p) == [date |-> p.date, price2f |-> Fmt2(p.price)]
ChartText(c) == [k \in 1..Len(Sample(c)) |-> ChartLine(Sample(c)[k])]

NewsEntry(n) == [published_at |-> n.published_at, title |-> n.title,
                 snippet |-> n.snippet, url |-> n.url]
\* entries emitted newest-last instead of in input order
NewsText_reversed(ns) == [k \in 1..Len(ns) |-> NewsEntry(ns[Len(ns) + 1 - k])]
NewsText(ns) == [k \in 1..Len(ns) |-> NewsEntry(ns[k])]

FallbackContext(sym) == << [kind |-> "fallback", symbol |-> sym] >>
\* numbering that forgets the +1 of "Source {idx+1}"
SourceBlock_zero(idx, d) == [kind |-> "source", n |-> idx, title |-> d.title,
                             body |-> d.snippet, url |-> d.url,
                             published_at |-> d.published_at]
SourceBlock(idx, d) == [kind |-> "source", n |-> idx + 1, title |-> d.title,
                        body |-> d.snippet, url |-> d.url,
                        published_at |-> d.published_at]
DocsText(ds) == [k \in 1..Len(ds) |-> SourceBlock(k - 1, ds[k])]

\* str.strip(): drop leading and trailing whitespace
RECURSIVE LStrip(_)
LStrip(s) == IF s # <<>> /\ Head(s) = " " THEN LStrip(Tail(s)) ELSE s
RECURSIVE RStrip(_)
RStrip(s) == IF s # <<>> /\ s[Len(s)] = " " THEN RStrip(SubSeq(s, 1, Len(s) - 1)) ELSE s
Strip(s) == RStrip(LStrip(s))

\* a router whose ask_AI branch returns the wrong identifier
router_crossed(m) == CASE m = "overview" -> "overview"
                       [] m = "ask_AI"   -> "history"
                       [] m = "history"  -> "history"
                       [] OTHER          -> NoMode
\* a router with a default branch instead of falling through to None
router_default(m) == CASE m = "ask_AI"   -> "ask_AI"
                       [] m = "history"  -> "history"
                       [] OTHER          -> "overview"
\* router(state): the generator identifier, or None
router(m) == CASE m = "overview" -> "overview"
               [] m = "ask_AI"   -> "ask_AI"
               [] m = "history"  -> "history"
               [] OTHER          -> NoMode

\* the path map of add_conditional_edges
PathMap == [k \in {"overview", "ask_AI", "history"} |-> k]

\* the graph with the first two formatting nodes wired in the other order
Edge_swapped(n) == CASE n = "START"             -> "fetch_news"
                     [] n = "fetch_news"        -> "chart_compression"
                     [] n = "chart_compression" -> "build_context"
                     [] n = "build_context"     -> "router"
                     [] n = "overview"          -> "END"
                     [] n = "ask_AI"            -> "END"
                     [] n = "history"           -> "END"
\* the fixed edges of the graph
Edge(n) == CASE n = "START"             -> "chart_compression"
             [] n = "chart_compression" -> "fetch_news"
             [] n = "fetch_news"        -> "build_context"
             [] n = "build_context"     -> "router"
             [] n = "overview"          -> "END"
             [] n = "ask_AI"            -> "END"
             [] n = "history"           -> "END"

\* ------------------------------------------------------------ Init
Init ==
  /\ mode \in Modes
  /\ symbol \in Symbols
  /\ indicators \in IndicatorValues
  /\ chart \in Charts
  /\ news \in NewsLists
  /\ docs \in DocLists
  /\ question = "Why did it move?"
  /\ chart_text = Absent
  /\ news_text = Absent
  /\ context_text = Absent
  /\ answer = Absent
  /\ pc = Edge("START")
  /\ log = <<>>
  /\ calls = <<>>
  /\ draft_text = Absent
  /\ final = NoReply
  /\ failure = ""
  /\ response = Absent
  /\ other = NoRequest

\* ------------------------------------------------------------ formatting nodes
\* chart_compression storing the sampled chart back into state["chart"]
chart_compression_in_place ==
  /\ pc = "chart_compression"
  /\ chart_text' = IF chart = <<>> THEN chart_text ELSE Val(ChartText(chart))
  /\ chart' = Sample(chart)
  /\ log' = Append(log, "chart_compression")
  /\ pc' = Edge("chart_compression")
  /\ UNCHANGED <<final, mode, symbol, indicators, news, docs, question, outer,
                 news_text, context_text, answer, calls, draft_text, failure>>
chart_compression ==
  /\ pc = "chart_compression"
  /\ chart_text' = IF chart = <<>> THEN chart_text ELSE Val(ChartText(chart))
  /\ log' = Append(log, "chart_compression")
  /\ pc' = Edge("chart_compression")
  /\ UNCHANGED <<final, inputs, outer, news_text, context_text, answer, calls, draft_text, failure>>

\* fetch_news that writes the rendering of an empty list instead of returning early
fetch_news_empty_rendering ==
  /\ pc = "fetch_news"
  /\ news_text' = Val(NewsText(news))
  /\ log' = Append(log, "fetch_news")
  /\ pc' = Edge("fetch_news")
  /\ UNCHANGED <<final, inputs, outer, chart_text, context_text, answer, calls, draft_text, failure>>
fetch_news ==
  /\ pc = "fetch_news"
  /\ news_text' = IF news = <<>> THEN news_text ELSE Val(NewsText(news))
  /\ log' = Append(log, "fetch_news")
  /\ pc' = Edge("fetch_news")
  /\ UNCHANGED <<final, inputs, outer, chart_text, context_text, answer, calls, draft_text, failure>>

\* build_context returning early on an empty document list, as the other two stages do
build_context_early_return ==
  /\ pc = "build_context"
  /\ context_text' = IF docs = <<>> THEN context_text ELSE Val(DocsText(docs))
  /\ log' = Append(log, "build_context")
  /\ pc' = Edge("build_context")
  /\ UNCHANGED <<final, inputs, outer, chart_text, news_text, answer, calls, draft_text, failure>>
build_context ==
  /\ pc = "build_context"
  /\ context_text' = IF docs = <<>> THEN Val(FallbackContext(symbol))
                                    ELSE Val(DocsText(docs))
  /\ log' = Append(log, "build_context")
  /\ pc' = Edge("build_context")
  /\ UNCHANGED <<final, inputs, outer, chart_text, news_text, answer, calls, draft_text, failure>>

\* the identity node "router" followed by its conditional edge
route ==
  /\ pc = "router"
  /\ log' = Append(log, "router")
  /\ IF router(mode) \in DOMAIN PathMap
       THEN /\ pc' = PathMap[router(mode)]
            /\ failure' = failure
       ELSE /\ pc' = "error"
            /\ failure' = "route"
  /\ UNCHANGED <<final, inputs, outer, chart_text, news_text, context_text, answer, calls, draft_text>>

\* ------------------------------------------------------------ generators
HasIndicators(ind) == IndKeys \subseteq DOMAIN ind

\* state.get("news_text", "No relevant news articles were available for this period.")
DefaultNewsText == << [kind |-> "literal",
                       text |-> "No relevant news articles were available for this period."] >>
NewsTextOrDefault(nt) == IF nt.present THEN nt.val ELSE DefaultNewsText

\* one client.chat.completions.create request: the node issuing it, the pass,
\* the grounding inputs interpolated into its prompt and the draft (verify only)
Call(node, pass, grounding, draft) ==
  [node |-> node, pass |-> pass, grounding |-> grounding, draft |-> draft]

OverviewGrounding == [symbol |-> symbol, indicators |-> indicators,
                      chart_text |-> chart_text.val]
AskGrounding == [symbol |-> symbol, indicators |-> indicators,
                 news_text |-> NewsTextOrDefault(news_text), question |-> question]
\* a verify prompt that reads state["news_text"] without the default of the draft prompt
AskVerifyGrounding_raw_news == [symbol |-> symbol, indicators |-> indicators,
                                news_text |-> news_text.val]
\* the verify prompt of ask_AI (lines 226-248) interpolates no question
AskVerifyGrounding == [symbol |-> symbol, indicators |-> indicators,
                       news_text |-> NewsTextOrDefault(news_text)]
HistoryGrounding == [symbol |-> symbol, context_text |-> context_text.val]

Fail(why) ==
  /\ pc' = "error"
  /\ failure' = why

\* overview that fills in a missing chart_text itself before building the prompt
overview_enter_setdefault ==
  /\ pc = "overview"
  /\ log' = Append(log, "overview")
  /\ chart_text' = IF chart_text.present THEN chart_text ELSE Val(<<>>)
  /\ IF ~HasIndicators(indicators)
       THEN Fail("KeyError: indicators") /\ calls' = calls
       ELSE /\ calls' = Append(calls, Call("overview", "single",
                                           [symbol |-> symbol, indicators |-> indicators,
                                            chart_text |-> chart_text.val], Absent))
            /\ pc' = "overview_call"
            /\ failure' = failure
  /\ UNCHANGED <<final, inputs, outer, news_text, context_text, answer, draft_text>>
\* overview, lines 136-172: read the state, build the prompt, issue the call
overview_enter ==
  /\ pc = "overview"
  /\ log' = Append(log, "overview")
  /\ IF ~chart_text.present
       THEN Fail("KeyError: chart_text") /\ calls' = calls
     ELSE IF ~HasIndicators(indicators)
       THEN Fail("KeyError: indicators") /\ calls' = calls
     ELSE /\ calls' = Append(calls, Call("overview", "single", OverviewGrounding, Absent))
          /\ pc' = "overview_call"
          /\ failure' = failure
  /\ UNCHANGED <<final, inputs, outer, chart_text, news_text, context_text, answer, draft_text>>

\* overview that issues its call a second time when the first one raises
overview_return_retry ==
  /\ pc = "overview_call"
  /\ \E r \in LLMResults :
       CASE r.kind = "raise" /\ Len(calls) < 2 ->
                                /\ calls' = Append(calls, calls[1])
                                /\ UNCHANGED <<pc, failure, answer, final>>
         [] r.kind = "raise" /\ Len(calls) >= 2 ->
                                Fail("llm") /\ UNCHANGED <<answer, calls, final>>
         [] r.kind = "none"  -> Fail("AttributeError: content") /\ final' = r
                                                                /\ UNCHANGED <<answer, calls>>
         [] r.kind = "text"  -> /\ final' = r
                                /\ answer' = Val(Strip(r.content))
                                /\ pc' = Edge("overview")
                                /\ UNCHANGED <<failure, calls>>
  /\ UNCHANGED <<inputs, outer, chart_text, news_text, context_text, log, draft_text>>
\* overview, lines 165-178: the call returns (or raises) and the answer is stored
overview_return ==
  /\ pc = "overview_call"
  /\ \E r \in LLMResults :
       CASE r.kind = "raise" -> Fail("llm") /\ UNCHANGED <<answer, final>>
         [] r.kind = "none"  -> Fail("AttributeError: content") /\ final' = r /\ answer' = answer
         [] r.kind = "text"  -> /\ final' = r
                                /\ answer' = Val(Strip(r.content))
                                /\ pc' = Edge("overview")
                                /\ failure' = failure
  /\ UNCHANGED <<inputs, outer, chart_text, news_text, context_text, log, calls, draft_text>>

\* ask_AI reading the indicators with indicators.get(...): a missing field is
\* interpolated as None and the draft call is issued all the same
ask_AI_enter_lenient ==
  /\ pc = "ask_AI"
  /\ log' = Append(log, "ask_AI")
  /\ calls' = Append(calls, Call("ask_AI", "draft", AskGrounding, Absent))
  /\ pc' = "ask_AI_draft"
  /\ failure' = failure
  /\ UNCHANGED <<final, inputs, outer, chart_text, news_text, context_text, answer, draft_text>>
\* ask_AI, lines 183-222: read the state, build the draft prompt, issue the draft call
ask_AI_enter ==
  /\ pc = "ask_AI"
  /\ log' = Append(log, "ask_AI")
  /\ IF ~HasIndicators(indicators)
       THEN Fail("KeyError: indicators") /\ calls' = calls
       ELSE /\ calls' = Append(calls, Call("ask_AI", "draft", AskGrounding, Absent))
            /\ pc' = "ask_AI_draft"
            /\ failure' = failure
  /\ UNCHANGED <<final, inputs, outer, chart_text, news_text, context_text, answer, draft_text>>

\* ask_AI that swallows a failed draft call and verifies an empty draft
ask_AI_draft_return_swallow ==
  /\ pc = "ask_AI_draft"
  /\ \E r \in LLMResults :
       LET d == IF r.kind = "text" THEN Val(Strip(r.content)) ELSE Absent IN
       /\ draft_text' = d
       /\ calls' = Append(calls, Call("ask_AI", "verify", AskVerifyGrounding, d))
       /\ pc' = "ask_AI_verify"
       /\ failure' = failure
  /\ UNCHANGED <<final, inputs, outer, chart_text, news_text, context_text, answer, log>>
\* ask_AI, lines 215-258: the draft call returns, the verify call is issued
ask_AI_draft_return ==
  /\ pc = "ask_AI_draft"
  /\ \E r \in LLMResults :
       CASE r.kind = "raise" -> Fail("llm") /\ UNCHANGED <<draft_text, calls>>
         [] r.kind = "none"  -> Fail("AttributeError: content") /\ UNCHANGED <<draft_text, calls>>
         [] r.kind = "text"  ->
              /\ draft_text' = Val(Strip(r.content))
              /\ calls' = Append(calls, Call("ask_AI", "verify", AskVerifyGrounding,
                                             Val(Strip(r.content))))
              /\ pc' = "ask_AI_verify"
              /\ failure' = failure
  /\ UNCHANGED <<final, inputs, outer, chart_text, news_text, context_text, answer, log>>

\* ask_AI that stores the draft as the answer when the verify call does not succeed
ask_AI_verify_return_keep_draft ==
  /\ pc = "ask_AI_verify"
  /\ \E r \in LLMResults :
       CASE r.kind = "raise" -> /\ answer' = draft_text
                                /\ pc' = Edge("ask_AI")
                                /\ UNCHANGED <<failure, final>>
         [] r.kind = "none"  -> /\ final' = r
                                /\ answer' = draft_text
                                /\ pc' = Edge("ask_AI")
                                /\ failure' = failure
         [] r.kind = "text"  -> /\ final' = r
                                /\ answer' = Val(Strip(r.content))
                                /\ pc' = Edge("ask_AI")
                                /\ failure' = failure
  /\ UNCHANGED <<inputs, outer, chart_text, news_text, context_text, log, calls, draft_text>>
\* ask_AI, lines 250-265: the verify call returns and the answer is stored
ask_AI_verify_return ==
  /\ pc = "ask_AI_verify"
  /\ \E r \in LLMResults :
       CASE r.kind = "raise" -> Fail("llm") /\ UNCHANGED <<answer, final>>
         [] r.kind = "none"  -> Fail("AttributeError: content") /\ final' = r /\ answer' = answer
         [] r.kind = "text"  -> /\ final' = r
                                /\ answer' = Val(Strip(r.content))
                                /\ pc' = Edge("ask_AI")
                                /\ failure' = failure
  /\ UNCHANGED <<inputs, outer, chart_text, news_text, context_text, log, calls, draft_text>>

\* history, lines 270-306: read the state, build the draft prompt, issue the draft call
history_enter ==
  /\ pc = "history"
  /\ log' = Append(log, "history")
  /\ IF ~context_text.present
       THEN Fail("KeyError: context_text") /\ calls' = calls
       ELSE /\ calls' = Append(calls, Call("history", "draft", HistoryGrounding, Absent))
            /\ pc' = "history_draft"
            /\ failure' = failure
  /\ UNCHANGED <<final, inputs, outer, chart_text, news_text, context_text, answer, draft_text>>

\* history that returns the draft without the verification pass
history_draft_return_single_pass ==
  /\ pc = "history_draft"
  /\ \E r \in LLMResults :
       CASE r.kind = "raise" -> Fail("llm") /\ UNCHANGED <<draft_text, answer>>
         [] r.kind = "none"  -> Fail("AttributeError: content") /\ UNCHANGED <<draft_text, answer>>
         [] r.kind = "text"  -> /\ draft_text' = Val(Strip(r.content))
                                /\ answer' = Val(Strip(r.content))
                                /\ pc' = Edge("history")
                                /\ failure' = failure
  /\ UNCHANGED <<final, inputs, outer, chart_text, news_text, context_text, calls, log>>
\* history, lines 295-340: the draft call returns, the verify call is issued
history_draft_return ==
  /\ pc = "history_draft"
  /\ \E r \in LLMResults :
       CASE r.kind = "raise" -> Fail("llm") /\ UNCHANGED <<draft_text, calls>>
         [] r.kind = "none"  -> Fail("AttributeError: content") /\ UNCHANGED <<draft_text, calls>>
         [] r.kind = "text"  ->
              /\ draft_text' = Val(Strip(r.content))
              /\ calls' = Append(calls, Call("history", "verify", HistoryGrounding,
                                             Val(Strip(r.content))))
              /\ pc' = "history_verify"
              /\ failure' = failure
  /\ UNCHANGED <<final, inputs, outer, chart_text, news_text, context_text, answer, log>>

\* history whose node swallows a failed verify call and neither returns nor raises
history_verify_return_lost ==
  /\ pc = "history_verify"
  /\ \E r \in LLMResults :
       CASE r.kind = "raise" -> /\ pc' = "history_verify_lost"
                                /\ UNCHANGED <<failure, answer, final>>
         [] r.kind = "none"  -> Fail("AttributeError: content") /\ final' = r /\ answer' = answer
         [] r.kind = "text"  -> /\ final' = r
                                /\ answer' = Val(Strip(r.content))
                                /\ pc' = Edge("history")
                                /\ failure' = failure
  /\ UNCHANGED <<inputs, outer, chart_text, news_text, context_text, log, calls, draft_text>>
\* history, lines 329-347: the verify call returns and the answer is stored
history_verify_return ==
  /\ pc = "history_verify"
  /\ \E r \in LLMResults :
       CASE r.kind = "raise" -> Fail("llm") /\ UNCHANGED <<answer, final>>
         [] r.kind = "none"  -> Fail("AttributeError: content") /\ final' = r /\ answer' = answer
         [] r.kind = "text"  -> /\ final' = r
                                /\ answer' = Val(Strip(r.content))
                                /\ pc' = Edge("history")
                                /\ failure' = failure
  /\ UNCHANGED <<inputs, outer, chart_text, news_text, context_text, log, calls, draft_text>>

Next ==
  \/ chart_compression
  \/ fetch_news
  \/ build_context
  \/ route
  \/ overview_enter
  \/ overview_return
  \/ ask_AI_enter
  \/ ask_AI_draft_return
  \/ ask_AI_verify_return
  \/ history_enter
  \/ history_draft_return
  \/ history_verify_return

Spec == Init /\ [][Next]_vars

\* ------------------------------------------------------------ a run under fair scheduling
\* agent.invoke runs the nodes one after the other on the calling thread: a node that
\* can run does run.  A create() call blocks until the client returns or raises
\* (the assumption under which termination is claimed).
NodeSteps ==
  \/ chart_compression
  \/ fetch_news
  \/ build_context
  \/ route
  \/ overview_enter
  \/ ask_AI_enter
  \/ history_enter

CallReturns ==
  \/ overview_return
  \/ ask_AI_draft_return
  \/ ask_AI_verify_return
  \/ history_draft_return
  \/ history_verify_return

InitLive ==
  /\ mode \in Modes
  /\ symbol \in Symbols
  /\ indicators \in IndicatorValues
  /\ chart \in {ChartOf(0), ChartOf(ChartLimit), ChartOf(MaxChartLen)}
  /\ news \in NewsLists
  /\ docs \in DocLists
  /\ question = "Why did it move?"
  /\ chart_text = Absent
  /\ news_text = Absent
  /\ context_text = Absent
  /\ answer = Absent
  /\ pc = Edge("START")
  /\ log = <<>>
  /\ calls = <<>>
  /\ draft_text = Absent
  /\ final = NoReply
  /\ failure = ""
  /\ response = Absent
  /\ other = NoRequest

SpecLive == InitLive /\ [][Next]_vars /\ WF_vars(NodeSteps) /\ WF_vars(CallReturns)

\* ------------------------------------------------------------ the stages as functions
\* The three formatting nodes called directly on one state dict, in any order and
\* possibly more than once: each stage once plus one repeated call.
StageNames == <<"chart_compression", "fetch_news", "build_context">>
MaxStageRuns == Len(StageNames) + 1

InitAnyOrder ==
  /\ mode = "ask_AI"
  /\ symbol \in Symbols
  /\ indicators = EmptyIndicators
  /\ chart \in {ChartOf(0), ChartOf(ChartLimit), ChartOf(MaxChartLen)}
  /\ news \in NewsLists
  /\ docs \in DocLists
  /\ question = "Why did it move?"
  /\ chart_text = Absent
  /\ news_text = Absent
  /\ context_text = Absent
  /\ answer = Absent
  /\ pc = "formatting"
  /\ log = <<>>
  /\ calls = <<>>
  /\ draft_text = Absent
  /\ final = NoReply
  /\ failure = ""
  /\ response = Absent
  /\ other = NoRequest

chart_compression_call ==
  /\ pc = "formatting"
  /\ Len(log) < MaxStageRuns
  /\ chart_text' = IF chart = <<>> THEN chart_text ELSE Val(ChartText(chart))
  /\ log' = Append(log, "chart_compression")
  /\ UNCHANGED <<final, inputs, outer, pc, news_text, context_text, answer, calls, draft_text, failure>>

fetch_news_call ==
  /\ pc = "formatting"
  /\ Len(log) < MaxStageRuns
  /\ news_text' = IF news = <<>> THEN news_text ELSE Val(NewsText(news))
  /\ log' = Append(log, "fetch_news")
  /\ UNCHANGED <<final, inputs, outer, pc, chart_text, context_text, answer, calls, draft_text, failure>>

\* build_context that also folds an already formatted news text into the context
build_context_call_with_news ==
  /\ pc = "formatting"
  /\ Len(log) < MaxStageRuns
  /\ context_text' = IF docs = <<>> THEN Val(FallbackContext(symbol))
                     ELSE Val(DocsText(docs) \o (IF news_text.present THEN news_text.val ELSE <<>>))
  /\ log' = Append(log, "build_context")
  /\ UNCHANGED <<final, inputs, outer, pc, chart_text, news_text, answer, calls, draft_text, failure>>
build_context_call ==
  /\ pc = "formatting"
  /\ Len(log) < MaxStageRuns
  /\ context_text' = IF docs = <<>> THEN Val(FallbackContext(symbol))
                                    ELSE Val(DocsText(docs))
  /\ log' = Append(log, "build_context")
  /\ UNCHANGED <<final, inputs, outer, pc, chart_text, news_text, answer, calls, draft_text, failure>>

NextAnyOrder ==
  \/ chart_compression_call
  \/ fetch_news_call
  \/ build_context_call

SpecAnyOrder == InitAnyOrder /\ [][NextAnyOrder]_vars

\* ------------------------------------------------------------ the endpoints of main.py
\* /summary_text (overview), /qa (ask_AI) and /history (history): fetch from the
\* providers, fill a fresh _empty_state, invoke the graph, return its answer or,
\* when the invocation raised, a templated fallback.
LLMFailures == {"llm", "AttributeError: content"}

\* main.py:327-332 and 392-397
FallbackSummary(sym, ind, closing) ==
  << [template |-> "moved_from_to", symbol |-> sym,
      start_price |-> ind["start_price"], end_price |-> ind["end_price"],
      return_pct |-> ind["return_pct"], closing |-> closing] >>
\* main.py:428-431
FallbackHistory(sym) == << [template |-> "summary_component_failed", symbol |-> sym] >>

\* the fallback of /history written like the other two, from the (empty) indicators
FallbackFor_uniform(m, sym, ind) ==
  FallbackSummary(sym, [k \in IndKeys |-> IF k \in DOMAIN ind THEN ind[k] ELSE 0],
                  "A detailed summary is temporarily unavailable.")
FallbackFor(m, sym, ind) ==
  CASE m = "overview" -> FallbackSummary(sym, ind, "A detailed summary is temporarily unavailable.")
    [] m = "ask_AI"   -> FallbackSummary(sym, ind, "A detailed explanation is temporarily unavailable.")
    [] m = "history"  -> FallbackHistory(sym)

Response(status, source, text) == [status |-> status, source |-> source, text |-> text]

InitEndpoint ==
  /\ mode \in ValidModes
  /\ symbol \in Symbols
  /\ indicators = EmptyIndicators
  /\ chart = <<>>
  /\ news = <<>>
  /\ docs = <<>>
  /\ question = "Why did it move?"
  /\ chart_text = Absent
  /\ news_text = Absent
  /\ context_text = Absent
  /\ answer = Absent
  /\ pc = "ep_market"
  /\ log = <<>>
  /\ calls = <<>>
  /\ draft_text = Absent
  /\ final = NoReply
  /\ failure = ""
  /\ response = Absent
  /\ other = NoRequest

\* fetch_crypto_history: MarketDataError, or a non-empty chart with its indicators.
\* /summary_text passes chart and indicators to the graph, /qa the indicators only;
\* /history uses the chart for its response only and tolerates the failure.
ep_market ==
  /\ pc = "ep_market"
  /\ \E ok \in BOOLEAN, c \in {ChartOf(1), ChartOf(MaxChartLen)} :
       CASE mode = "history" ->
              /\ pc' = "ep_docs"
              /\ UNCHANGED <<chart, indicators, response>>
         [] mode # "history" /\ ~ok ->
              /\ pc' = "returned"
              /\ response' = Val(Response(400, "MarketDataError", <<>>))
              /\ UNCHANGED <<chart, indicators>>
         [] mode = "overview" /\ ok ->
              /\ chart' = c
              /\ indicators' = FullIndicators
              /\ pc' = Edge("START")
              /\ response' = response
         [] mode = "ask_AI" /\ ok ->
              /\ chart' = chart
              /\ indicators' = FullIndicators
              /\ pc' = "ep_news"
              /\ response' = response
  /\ UNCHANGED <<final, mode, symbol, news, docs, question, other, chart_text, news_text,
                 context_text, answer, log, calls, draft_text, failure>>

\* /qa without the try/except around fetch_symbol_news
ep_news_propagate ==
  /\ pc = "ep_news"
  /\ \/ /\ log' = Append(log, "fetch_symbol_news failed")
        /\ pc' = "returned"
        /\ response' = Val(Response(500, "Exception", <<>>))
        /\ news' = news
     \/ \E r \in NewsLists :
          /\ news' = r
          /\ log' = log
          /\ pc' = Edge("START")
          /\ response' = response
  /\ UNCHANGED <<final, mode, symbol, indicators, chart, docs, question, other, chart_text,
                 news_text, context_text, answer, calls, draft_text, failure>>
\* /qa, lines 372-381: fetch_symbol_news, any exception replaced by an empty list
ep_news ==
  /\ pc = "ep_news"
  /\ \/ /\ news' = <<>>
        /\ log' = Append(log, "fetch_symbol_news failed")
     \/ \E r \in NewsLists :
          /\ news' = r
          /\ log' = log
  /\ pc' = Edge("START")
  /\ UNCHANGED <<final, mode, symbol, indicators, chart, docs, question, outer, chart_text,
                 news_text, context_text, answer, calls, draft_text, failure>>

\* /history, lines 418-422: fetch_asset_background_docs, any exception replaced by []
ep_docs ==
  /\ pc = "ep_docs"
  /\ \/ /\ docs' = <<>>
        /\ log' = Append(log, "fetch_asset_background_docs failed")
     \/ \E r \in DocLists :
          /\ docs' = r
          /\ log' = log
  /\ pc' = Edge("START")
  /\ UNCHANGED <<final, mode, symbol, indicators, chart, news, question, outer, chart_text,
                 news_text, context_text, answer, calls, draft_text, failure>>

\* agent.invoke returned (result["answer"]) or raised (the except branch)
ep_respond ==
  /\ pc \in {"END", "error"}
  /\ response' = IF pc = "END"
                   THEN Val(Response(200, "graph", answer.val))
                   ELSE Val(Response(200, "fallback", FallbackFor(mode, symbol, indicators)))
  /\ pc' = "returned"
  /\ UNCHANGED <<final, inputs, other, chart_text, news_text, context_text, answer,
                 log, calls, draft_text, failure>>

NextEndpoint ==
  \/ ep_market
  \/ ep_news
  \/ ep_docs
  \/ chart_compression
  \/ fetch_news
  \/ build_context
  \/ route
  \/ overview_enter
  \/ overview_return
  \/ ask_AI_enter
  \/ ask_AI_draft_return
  \/ ask_AI_verify_return
  \/ history_enter
  \/ history_draft_return
  \/ history_verify_return
  \/ ep_respond

SpecEndpoint == InitEndpoint /\ [][NextEndpoint]_vars

\* ------------------------------------------------------------ two requests in flight
\* A second invocation of the same compiled graph `agent`, with the same module-level
\* `client`, on its own state dict built by _empty_state; its steps interleave with
\* those of the first request node by node and call by call.
request == <<mode, symbol, indicators, chart, news, docs, question,
             chart_text, news_text, context_text, answer,
             pc, log, calls, draft_text, final, failure>>

NewRequest(m, sym, ind, c, ns, ds) ==
  [mode |-> m, symbol |-> sym, indicators |-> ind, chart |-> c, news |-> ns, docs |-> ds,
   question |-> "Why did it move?",
   chart_text |-> Absent, news_text |-> Absent, context_text |-> Absent, answer |-> Absent,
   pc |-> Edge("START"), log |-> <<>>, calls |-> <<>>, draft_text |-> Absent,
   final |-> NoReply, failure |-> ""]

Enter(s, node) == [s EXCEPT !.log = Append(@, node)]
Failed(s, why) == [s EXCEPT !.pc = "error", !.failure = why]
Issue(s, pass, grounding, draft, wait) ==
  [s EXCEPT !.calls = Append(@, Call(s.pc, pass, grounding, draft)), !.pc = wait]

\* a create() call of request s returns r while s waits in a draft pass
DraftReturn(s, node, r, grounding) ==
  CASE r.kind = "raise" -> Failed(s, "llm")
    [] r.kind = "none"  -> Failed(s, "AttributeError: content")
    [] r.kind = "text"  ->
         [s EXCEPT !.draft_text = Val(Strip(r.content)),
                   !.calls = Append(@, Call(node, "verify", grounding, Val(Strip(r.content)))),
                   !.pc = node \o "_verify"]

\* a create() call of request s returns r and its text becomes the answer
FinalReturn(s, node, r) ==
  CASE r.kind = "raise" -> Failed(s, "llm")
    [] r.kind = "none"  -> [Failed(s, "AttributeError: content") EXCEPT !.final = r]
    [] r.kind = "text"  -> [s EXCEPT !.final = r, !.answer = Val(Strip(r.content)),
                                     !.pc = Edge(node)]

\* the successors of request s: one node, or one return of a model call
RequestSteps(s) ==
  CASE s.pc = "chart_compression" ->
         {[Enter(s, s.pc) EXCEPT
             !.chart_text = IF s.chart = <<>> THEN @ ELSE Val(ChartText(s.chart)),
             !.pc = Edge(s.pc)]}
    [] s.pc = "fetch_news" ->
         {[Enter(s, s.pc) EXCEPT
             !.news_text = IF s.news = <<>> THEN @ ELSE Val(NewsText(s.news)),
             !.pc = Edge(s.pc)]}
    [] s.pc = "build_context" ->
         {[Enter(s, s.pc) EXCEPT
             !.context_text = IF s.docs = <<>> THEN Val(FallbackContext(s.symbol))
                                               ELSE Val(DocsText(s.docs)),
             !.pc = Edge(s.pc)]}
    [] s.pc = "router" ->
         {IF router(s.mode) \in DOMAIN PathMap
            THEN [Enter(s, s.pc) EXCEPT !.pc = PathMap[router(s.mode)]]
            ELSE Failed(Enter(s, s.pc), "route")}
    [] s.pc = "overview" ->
         {IF ~s.chart_text.present THEN Failed(Enter(s, s.pc), "KeyError: chart_text")
          ELSE IF ~HasIndicators(s.indicators) THEN Failed(Enter(s, s.pc), "KeyError: indicators")
          ELSE Issue(Enter(s, s.pc), "single",
                     [symbol |-> s.symbol, indicators |-> s.indicators,
                      chart_text |-> s.chart_text.val], Absent, "overview_call")}
    [] s.pc = "overview_call" -> {FinalReturn(s, "overview", r) : r \in LLMResults}
    [] s.pc = "ask_AI" ->
         {IF ~HasIndicators(s.indicators) THEN Failed(Enter(s, s.pc), "KeyError: indicators")
          ELSE Issue(Enter(s, s.pc), "draft",
                     [symbol |-> s.symbol, indicators |-> s.indicators,
                      news_text |-> NewsTextOrDefault(s.news_text),
                      question |-> s.question], Absent, "ask_AI_draft")}
    [] s.pc = "ask_AI_draft" ->
         {DraftReturn(s, "ask_AI", r,
                      [symbol |-> s.symbol, indicators |-> s.indicators,
                       news_text |-> NewsTextOrDefault(s.news_text)]) : r \in LLMResults}
    [] s.pc = "ask_AI_verify" -> {FinalReturn(s, "ask_AI", r) : r \in LLMResults}
    [] s.pc = "history" ->
         {IF ~s.context_text.present THEN Failed(Enter(s, s.pc), "KeyError: context_text")
          ELSE Issue(Enter(s, s.pc), "draft",
                     [symbol |-> s.symbol, context_text |-> s.context_text.val],
                     Absent, "history_draft")}
    [] s.pc = "history_draft" ->
         {DraftReturn(s, "history", r,
                      [symbol |-> s.symbol, context_text |-> s.context_text.val])
            : r \in LLMResults}
    [] s.pc = "history_verify" -> {FinalReturn(s, "history", r) : r \in LLMResults}
    [] OTHER -> {}

InitPair ==
  /\ mode \in ValidModes
  /\ symbol = "BTC"
  /\ indicators = FullIndicators
  /\ chart = ChartOf(1)
  /\ news \in {<<>>, NewsOf(1, 0)}
  /\ docs \in {<<>>, DocsOf(1, 0)}
  /\ question = "Why did it move?"
  /\ chart_text = Absent
  /\ news_text = Absent
  /\ context_text = Absent
  /\ answer = Absent
  /\ pc = Edge("START")
  /\ log = <<>>
  /\ calls = <<>>
  /\ draft_text = Absent
  /\ final = NoReply
  /\ failure = ""
  /\ response = Absent
  /\ other \in {NewRequest(m, "ETH", FullIndicators, ChartOf(2), NewsOf(2, 1), DocsOf(1, 1))
                  : m \in ValidModes}

\* one state dict shared by both invocations: what the second request formats is
\* also what the first request sees
other_step_shared_state ==
  /\ other.pc # "none"
  /\ \E t \in RequestSteps(other) :
       /\ other' = t
       /\ chart_text' = t.chart_text
       /\ news_text' = t.news_text
       /\ context_text' = t.context_text
  /\ UNCHANGED <<final, inputs, response, answer, pc, log, calls, draft_text, failure>>
\* a client that is unusable for everybody once one of its calls has failed
other_step_stalled ==
  /\ other.pc # "none"
  /\ failure \notin LLMFailures
  /\ \E t \in RequestSteps(other) : other' = t
  /\ UNCHANGED <<request, response>>
\* a step of the second request
other_step ==
  /\ other.pc # "none"
  /\ \E t \in RequestSteps(other) : other' = t
  /\ UNCHANGED <<request, response>>

NextPair ==
  \/ chart_compression
  \/ fetch_news
  \/ build_context
  \/ route
  \/ overview_enter
  \/ overview_return
  \/ ask_AI_enter
  \/ ask_AI_draft_return
  \/ ask_AI_verify_return
  \/ history_enter
  \/ history_draft_return
  \/ history_verify_return
  \/ other_step

SpecPair == InitPair /\ [][NextPair]_vars

\* ------------------------------------------------------------ properties
Range(s) == {s[i] : i \in 1..Len(s)}
Stages == <<"chart_compression", "fetch_news", "build_context">>
Generators == {"overview", "ask_AI", "history"}
Terminal == pc \in {"END", "error"}
Passes(cs) == [i \in 1..Len(cs) |-> cs[i].pass]

\* C1: whatever the mode, the nodes entered first are chart_compression, fetch_news,
\* build_context, in that order, each once, and the router (and anything after it)
\* is entered only when all three have run.
C1_FormattingBeforeRouting ==
  /\ \A i \in 1..Len(log) : IF i <= 3 THEN log[i] = Stages[i] ELSE log[i] \notin Range(Stages)
  /\ (pc \notin Range(Stages)) => (Len(log) >= 3 /\ SubSeq(log, 1, 3) = Stages)
  /\ \A i \in 1..Len(log) : log[i] = "router" => i = 4

C1_Witness == mode = "unknown" /\ log = Stages \o <<"router">>

\* C2: with a valid mode the nodes entered are the three stages, the router and then the
\* single generator named by the mode; no node is entered twice; the run stops when the
\* generator returns.
C2_OneMatchingGenerator ==
  mode \in ValidModes =>
    /\ \A i, j \in 1..Len(log) : log[i] = log[j] => i = j
    /\ Range(log) \cap Generators \subseteq {mode}
    /\ pc \in Generators => (pc = mode /\ log = Stages \o <<"router">>)
    /\ (pc \notin Range(Stages) \cup {"router"} \cup Generators) =>
          log = Stages \o <<"router", mode>>
    /\ pc = "END" => (answer.present /\ ~ENABLED Next)

C2_Witness == mode = "ask_AI" /\ pc = "END" /\ log = Stages \o <<"router", "ask_AI">>

\* C3: a valid mode is routed to the generator of the same name; any other mode
\* (a missing one included) ends the run at the router with no generator entered
\* and no model call issued.
C3_RouterRejectsOtherModes ==
  /\ (mode \in ValidModes /\ "router" \in Range(log)) =>
        (failure # "route" /\ (pc \in Generators => pc = mode))
  /\ mode \notin ValidModes =>
        /\ Range(log) \cap Generators = {}
        /\ calls = <<>>
        /\ ~answer.present
        /\ "router" \in Range(log) => (pc = "error" /\ failure = "route" /\ ~ENABLED Next)

C3_Witness == mode = NoMode /\ pc = "error" /\ failure = "route" /\ calls = <<>>

\* C4 as claimed: when the router rejects the mode, none of chart_text, news_text,
\* context_text has been written.
C4_Original ==
  failure = "route" => (~chart_text.present /\ ~news_text.present /\ ~context_text.present)

\* C4 as amended: the router rejects an unrecognised mode after the three formatting
\* stages have run (context_text is written, chart_text and news_text are written
\* exactly when their input is non-empty) and before any generator, model call or answer.
C4_Amended ==
  failure = "route" =>
    /\ mode \notin ValidModes
    /\ SubSeq(log, 1, 3) = Stages
    /\ context_text.present
    /\ chart_text.present <=> chart # <<>>
    /\ news_text.present <=> news # <<>>
    /\ calls = <<>>
    /\ ~answer.present
    /\ Range(log) \cap Generators = {}

C4_Witness == failure = "route" /\ mode = "unknown" /\ docs = <<>> /\ context_text.present

\* C5: a run that reaches END has issued one model call in overview mode and two
\* (draft, verify) in ask_AI and history mode.
C5_CallCount ==
  pc = "END" =>
    /\ mode = "overview" => Passes(calls) = <<"single">>
    /\ mode \in {"ask_AI", "history"} => Passes(calls) = <<"draft", "verify">>
    /\ \A i \in 1..Len(calls) : calls[i].node = mode

C5_Witness == pc = "END" /\ mode = "history" /\ Len(calls) = 2

\* C6: a verify call is only ever the second call, issued by the node that issued the
\* draft call, after that draft returned a text (which it carries); when the draft call
\* fails the run stops with no verify call and no answer.
C6_VerifyAfterDraft ==
  /\ \A i \in 1..Len(calls) :
       calls[i].pass = "verify" =>
         /\ i = 2
         /\ calls[1].pass = "draft"
         /\ calls[1].node = calls[2].node
         /\ draft_text.present
         /\ calls[2].draft = draft_text
  /\ (Len(calls) >= 1 /\ calls[1].pass = "draft" /\ ~draft_text.present) =>
       /\ Len(calls) = 1
       /\ ~answer.present
       /\ pc \in {"ask_AI_draft", "history_draft", "error"}
       /\ pc = "error" => ~ENABLED Next

C6_Witness ==
  /\ mode = "ask_AI" /\ pc = "error" /\ failure = "llm"
  /\ Passes(calls) = <<"draft">> /\ ~draft_text.present /\ ~answer.present

\* the least s with 20 * s >= L, i.e. ceil(L / 20)
C7_Step(L) == CHOOSE s \in 1..L : 20 * (s - 1) < L /\ L <= 20 * s
C7_CeilDiv(a, b) == CHOOSE q \in 0..a : b * (q - 1) < a /\ a <= b * q

\* C7: a chart of at most 20 points is rendered point by point; a chart of L > 20 points
\* is rendered as the points at 0-based indices 0, step, 2*step, ... (step = ceil(L/20)),
\* in input order: ceil(L / step) lines, the first of them the first input point.
C7_ChartSampling ==
  ("chart_compression" \in Range(log) /\ chart # <<>>) =>
    LET L == Len(chart)
        t == chart_text.val
    IN /\ chart_text.present
       /\ L <= 20 => (Len(t) = L /\ \A k \in 1..L : t[k] = ChartLine(chart[k]))
       /\ L > 20 =>
            LET step == C7_Step(L)
                picked == {i \in 0..(L - 1) : i % step = 0}
            IN /\ Len(t) = Cardinality(picked)
               /\ Len(t) = C7_CeilDiv(L, step)
               /\ \A k \in 1..Len(t) : t[k] = ChartLine(chart[(k - 1) * step + 1])
               /\ t[1] = ChartLine(chart[1])

C7_Witness == chart_text.present /\ Len(chart) = MaxChartLen /\ Len(chart_text.val) < Len(chart)

\* C8 as claimed: an empty chart is never an error: in every mode the generator selected
\* for a request whose chart is empty reads its chart rendering without failing.
C8_EmptyChartClaim ==
  (chart = <<>> /\ mode \in ValidModes) => failure # "KeyError: chart_text"

\* C9: with no documents context_text is the fallback sentence naming the request's
\* symbol, with no [Source N] block; with N documents it is N [Source k] blocks,
\* k = 1..N, block k built from document k.
C9_ContextBlocks ==
  "build_context" \in Range(log) =>
    LET t == context_text.val IN
    /\ context_text.present
    /\ docs = <<>> =>
         /\ Len(t) = 1
         /\ t[1].kind = "fallback"
         /\ t[1].symbol = symbol
    /\ docs # <<>> =>
         /\ Len(t) = Len(docs)
         /\ \A k \in 1..Len(t) :
              /\ t[k].kind = "source"
              /\ t[k].n = k
              /\ t[k].title = docs[k].title
              /\ t[k].url = docs[k].url
              /\ t[k].published_at = docs[k].published_at

C9_Witness ==
  /\ "build_context" \in Range(log) /\ Len(docs) = 2 /\ docs[1] # docs[2]
  /\ Len(context_text.val) = 2

\* C10: a non-empty news list is rendered as one entry per record, entry k built from
\* record k: nothing dropped, duplicated, merged or reordered.
C10_NewsEntries ==
  ("fetch_news" \in Range(log) /\ news # <<>>) =>
    /\ news_text.present
    /\ Len(news_text.val) = Len(news)
    /\ \A k \in 1..Len(news) :
         /\ news_text.val[k].published_at = news[k].published_at
         /\ news_text.val[k].title = news[k].title
         /\ news_text.val[k].snippet = news[k].snippet
         /\ news_text.val[k].url = news[k].url

C10_Witness ==
  /\ news_text.present /\ Len(news) = 3 /\ news[1] = news[3] /\ news[1] # news[2]
  /\ Len(news_text.val) = 3
\* C16: a verify call carries the draft text returned by the draft call of the same
\* node and the grounding inputs of that draft call (indicators and news text for
\* ask_AI, context text for history) taken from the request, and nothing else.
C16_VerifyGrounding ==
  \A i \in 1..Len(calls) :
    calls[i].pass = "verify" =>
      LET d == calls[1].grounding
          v == calls[i].grounding
      IN /\ calls[i].draft = draft_text
         /\ draft_text.present
         /\ v.symbol = symbol
         /\ calls[i].node = "ask_AI" =>
              /\ DOMAIN v = {"symbol", "indicators", "news_text"}
              /\ v.indicators = d.indicators /\ v.indicators = indicators
              /\ v.news_text = d.news_text
              /\ news_text.present => v.news_text = news_text.val
         /\ calls[i].node = "history" =>
              /\ DOMAIN v = {"symbol", "context_text"}
              /\ v.context_text = d.context_text
              /\ v.context_text = context_text.val

C16_Witness ==
  /\ mode = "ask_AI" /\ news = <<>> /\ Len(calls) = 2 /\ calls[2].pass = "verify"
  /\ calls[2].grounding.news_text = DefaultNewsText

\* C19: no step of a pipeline run changes mode, chart, news or docs.
C19_InputsReadOnly ==
  [][mode' = mode /\ chart' = chart /\ news' = news /\ docs' = docs]_vars

C19_Witness ==
  /\ pc = "END" /\ Len(chart) > ChartLimit /\ news # <<>> /\ docs # <<>>
  /\ chart_text.present /\ Len(chart_text.val) < Len(chart)

\* C20: a derived text field changes only in a step of its own formatting stage, and only
\* from absent to written: it is written at most once and keeps its value afterwards.
C20_DerivedWriteOnce ==
  [][ /\ chart_text' # chart_text =>
           (pc = "chart_compression" /\ ~chart_text.present /\ chart_text'.present)
      /\ news_text' # news_text =>
           (pc = "fetch_news" /\ ~news_text.present /\ news_text'.present)
      /\ context_text' # context_text =>
           (pc = "build_context" /\ ~context_text.present /\ context_text'.present) ]_vars

C20_Witness ==
  /\ pc = "END" /\ chart_text.present /\ news_text.present /\ context_text.present
\* C11: however the three stages are ordered and however often one is repeated, each
\* derived text is the rendering of its own input collection alone: absent before its
\* stage ran, and afterwards the same value whatever ran before, between or after.
C11_StagesOrderIndependent ==
  /\ chart_text = IF "chart_compression" \in Range(log) /\ chart # <<>>
                    THEN Val(ChartText(chart)) ELSE Absent
  /\ news_text = IF "fetch_news" \in Range(log) /\ news # <<>>
                   THEN Val(NewsText(news)) ELSE Absent
  /\ context_text = IF "build_context" \notin Range(log) THEN Absent
                    ELSE IF docs = <<>> THEN Val(FallbackContext(symbol))
                    ELSE Val(DocsText(docs))

C11_Witness ==
  /\ log = <<"build_context", "fetch_news", "build_context", "chart_compression">>
  /\ chart_text.present /\ news_text.present /\ docs # <<>>
\* C13 as claimed: whenever a model call of a request failed, the endpoint returns a
\* non-empty fallback text built from the numeric indicators, with no model involvement.
C13_Original ==
  (pc = "returned" /\ failure \in LLMFailures) =>
    /\ response.present
    /\ response.val.source = "fallback"
    /\ response.val.text # <<>>
    /\ \A k \in {"start_price", "end_price", "return_pct"} :
         k \in DOMAIN response.val.text[1] /\ response.val.text[1][k] = indicators[k]

\* C13 as amended: whenever a model call of a request failed, the endpoint returns a
\* non-empty templated fallback with no model involvement and no further model call:
\* built from the numeric indicators in overview and ask_AI mode, a fixed sentence
\* naming the symbol in history mode.
C13_Amended ==
  (pc = "returned" /\ failure \in LLMFailures) =>
    /\ response.present
    /\ response.val.status = 200
    /\ response.val.source = "fallback"
    /\ Len(response.val.text) = 1
    /\ response.val.text[1].symbol = symbol
    /\ ~answer.present
    /\ mode \in {"overview", "ask_AI"} =>
         \A k \in {"start_price", "end_price", "return_pct"} :
           k \in DOMAIN response.val.text[1] /\ response.val.text[1][k] = indicators[k]
    /\ mode = "history" =>
         DOMAIN response.val.text[1] = {"template", "symbol"}

C13_Witness ==
  /\ pc = "returned" /\ mode = "ask_AI" /\ failure = "llm" /\ Len(calls) = 2
  /\ response.present /\ response.val.source = "fallback"

\* C14: when the news provider or the document provider fails or returns nothing, the
\* request is not aborted: the collection is the empty list, the graph is invoked, the
\* selected generator is entered and issues its draft call on the default news text,
\* respectively the fallback context, and the endpoint answers with status 200.
C14_ProviderFailureNonFatal ==
  LET \* the provider has been asked (for /qa: the market fetch before it succeeded)
      started == /\ pc \notin {"ep_market", "ep_news", "ep_docs"}
                 /\ mode = "ask_AI" => indicators # EmptyIndicators
      routed == pc \notin {"ep_market", "ep_news", "ep_docs", "chart_compression",
                           "fetch_news", "build_context", "router", "ask_AI", "history"}
  IN /\ "fetch_symbol_news failed" \in Range(log) => (mode = "ask_AI" /\ news = <<>>)
     /\ "fetch_asset_background_docs failed" \in Range(log) => (mode = "history" /\ docs = <<>>)
     /\ (started /\ mode = "ask_AI" /\ news = <<>>) =>
          /\ failure \in LLMFailures \cup {""}
          /\ response.present => response.val.status = 200
          /\ pc # "returned" => ENABLED NextEndpoint
          /\ routed => /\ "ask_AI" \in Range(log)
                       /\ calls # <<>>
                       /\ calls[1].grounding.news_text = DefaultNewsText
     /\ (started /\ mode = "history" /\ docs = <<>>) =>
          /\ failure \in LLMFailures \cup {""}
          /\ response.present => response.val.status = 200
          /\ pc # "returned" => ENABLED NextEndpoint
          /\ routed => /\ "history" \in Range(log)
                       /\ calls # <<>>
                       /\ calls[1].grounding.context_text = FallbackContext(symbol)

C14_Witness ==
  /\ "fetch_symbol_news failed" \in Range(log) /\ pc = "returned"
  /\ response.val.source = "graph" /\ Len(calls) = 2

\* the fallback sentence of build_context as one piece of text
FallbackSentence(sym) ==
  "This is supposed to be a historical overview of " \o sym
    \o ", but no background documents were available from the search engine."
Embeds(text, sentence) == \E i \in 1..Len(text) : text[i] = sentence

\* C15 as claimed: in history mode with no background documents the answer of a
\* completed run equals or contains the fallback context sentence naming the symbol.
C15_FallbackInAnswer ==
  (mode = "history" /\ docs = <<>> /\ pc = "END") =>
    (answer.present /\ Embeds(answer.val, FallbackSentence(symbol)))

\* C17: within one request no pass (single, draft, verify) is issued twice, and once a
\* model call has failed no further call is issued, by the graph or by the endpoint.
C17_NoRetry ==
  /\ [](/\ \A i, j \in 1..Len(calls) : calls[i].pass = calls[j].pass => i = j
        /\ \A i \in 1..Len(calls) : calls[i].node = mode)
  /\ [][failure' \in LLMFailures => (calls' = calls /\ pc' \in {"error", "returned"})]_vars

C17_Witness ==
  /\ pc = "returned" /\ mode = "overview" /\ failure = "llm" /\ Len(calls) = 1
\* the derived texts and prompts of a request are those of its own inputs
OwnContext(ct, nt, xt, cs, c, ns, ds, sym) ==
  /\ ct.present => ct = Val(ChartText(c))
  /\ nt.present => nt = Val(NewsText(ns))
  /\ xt.present => xt = IF ds = <<>> THEN Val(FallbackContext(sym)) ELSE Val(DocsText(ds))
  /\ \A i \in 1..Len(cs) :
       /\ cs[i].grounding.symbol = sym
       /\ "chart_text" \in DOMAIN cs[i].grounding => cs[i].grounding.chart_text = ChartText(c)
       /\ "news_text" \in DOMAIN cs[i].grounding =>
            cs[i].grounding.news_text = IF ns = <<>> THEN DefaultNewsText ELSE NewsText(ns)
       /\ "context_text" \in DOMAIN cs[i].grounding =>
            cs[i].grounding.context_text =
              IF ds = <<>> THEN FallbackContext(sym) ELSE DocsText(ds)

\* C12: for every interleaving of two requests, a step of one request leaves the whole
\* context of the other unchanged, and the derived texts and the prompts of each are
\* built from that request's own inputs.
C12_NoSharedState ==
  /\ [][ /\ other' # other => UNCHANGED request
         /\ request' # request => other' = other ]_vars
  /\ [](/\ OwnContext(chart_text, news_text, context_text, calls, chart, news, docs, symbol)
        /\ OwnContext(other.chart_text, other.news_text, other.context_text, other.calls,
                      other.chart, other.news, other.docs, other.symbol))

C12_Witness ==
  /\ pc = "END" /\ other.pc = "END" /\ mode = "history" /\ other.mode = "history"
  /\ context_text # other.context_text /\ answer # other.answer

\* C18: the step in which a model call of one request fails changes nothing of the other
\* request, and while one request has failed the other, unless finished, can still step.
C18_FailureIsLocal ==
  /\ [][ /\ (failure = "" /\ failure' \in LLMFailures) => other' = other
         /\ (other.failure = "" /\ other'.failure \in LLMFailures) => UNCHANGED request ]_vars
  /\ []((failure \in LLMFailures /\ other.pc \notin {"END", "error"}) => ENABLED other_step)
  /\ []((other.failure \in LLMFailures /\ pc \notin {"END", "error"}) => ENABLED Next)

C18_Witness ==
  /\ failure = "llm" /\ pc = "error" /\ mode = "ask_AI"
  /\ other.pc = "END" /\ other.answer.present /\ "ask_AI" \in Range(other.log)
\* C21 as claimed: every block of the context text carries the content field of its
\* document when the document has one, and the snippet only when it has none.
C21_ContentPreferred ==
  ("build_context" \in Range(log) /\ docs # <<>>) =>
    \A k \in 1..Len(docs) :
      context_text.val[k].body = IF "content" \in DOMAIN docs[k] THEN docs[k].content
                                                                 ELSE docs[k].snippet

\* C22 as claimed: with an empty news list no stage fails, and in ask_AI mode the draft
\* and the verify call are both issued with the empty rendering as their news input.
C22_Original ==
  (news = <<>> /\ mode = "ask_AI" /\ HasIndicators(indicators)) =>
    /\ failure \in LLMFailures \cup {""}
    /\ pc = "END" => Passes(calls) = <<"draft", "verify">>
    /\ \A i \in 1..Len(calls) : calls[i].grounding.news_text = <<>>

\* C22 as amended: with an empty news list fetch_news writes no news text and the run
\* goes on to build_context in every mode; in ask_AI mode a run whose calls succeed
\* issues the draft and the verify call, each with the same default sentence ("No
\* relevant news articles were available for this period.") as its news input.
C22_Amended ==
  news = <<>> =>
    /\ ~news_text.present
    /\ "fetch_news" \in Range(log) => (pc = "build_context" \/ "build_context" \in Range(log))
    /\ (mode = "ask_AI" /\ HasIndicators(indicators)) =>
         /\ failure \in LLMFailures \cup {""}
         /\ pc \in {"ask_AI_draft", "ask_AI_verify"} => Len(calls) = (IF pc = "ask_AI_draft" THEN 1 ELSE 2)
         /\ pc = "END" => Passes(calls) = <<"draft", "verify">>
         /\ \A i \in 1..Len(calls) : calls[i].grounding.news_text = DefaultNewsText

C22_Witness ==
  /\ news = <<>> /\ mode = "ask_AI" /\ pc = "END" /\ answer.present
  /\ calls[1].grounding.news_text = DefaultNewsText
  /\ calls[2].grounding.news_text = DefaultNewsText
\* C23: a request in overview or ask_AI mode whose indicators lack a required field is
\* rejected when its generator builds the prompt: no model call is ever issued for it,
\* no answer is written, the run ends in an error and no node is entered a second time.
C23_MissingFieldRejected ==
  (mode \in {"overview", "ask_AI"} /\ ~HasIndicators(indicators)) =>
    /\ calls = <<>>
    /\ ~answer.present
    /\ final = NoReply
    /\ pc \notin {"overview_call", "ask_AI_draft", "ask_AI_verify", "END"}
    /\ \A i, j \in 1..Len(log) : log[i] = log[j] => i = j
    /\ mode \in Range(log) =>
         /\ pc = "error"
         /\ failure \in {"KeyError: indicators", "KeyError: chart_text"}
         /\ ~ENABLED Next

C23_Witness ==
  /\ mode = "ask_AI" /\ "start_price" \notin DOMAIN indicators
  /\ pc = "error" /\ failure = "KeyError: indicators" /\ calls = <<>>
  /\ log = Stages \o <<"router", "ask_AI">>

\* the terminal outcomes of a run: the generator of the mode returned with an answer
\* written, or the run failed with an error raised to the caller
C24_Outcome ==
  \/ /\ pc = "END"
     /\ answer.present
     /\ mode \in ValidModes
     /\ log[Len(log)] = mode
  \/ /\ pc = "error"
     /\ failure # ""

\* C24: when every node that can run does run and every model call returns or raises,
\* every run eventually reaches a terminal outcome and stays there.
C24_Terminates == <>[]C24_Outcome

C24_Witness ==
  /\ pc = "END" /\ mode = "overview" /\ answer.present /\ log[Len(log)] = "overview"
  /\ Len(chart) = MaxChartLen

\* C25: in ask_AI and history mode the answer is written only in the step in which the
\* verify call returns a text, and is that text (stripped); the step in which the draft
\* returns writes no answer; a failed verify call leaves the answer unwritten and the
\* endpoint then returns its fallback, otherwise it returns the stored answer.
C25_AnswerIsVerifyText ==
  /\ [](mode \in {"ask_AI", "history"} =>
         /\ answer.present =>
              /\ final.kind = "text"
              /\ answer.val = Strip(final.content)
              /\ Passes(calls) = <<"draft", "verify">>
              /\ failure = ""
         /\ failure \in LLMFailures => ~answer.present
         /\ (response.present /\ response.val.source = "graph") =>
              /\ failure = ""
              /\ answer.present
              /\ response.val.text = Strip(final.content)
         /\ (response.present /\ failure \in LLMFailures) =>
              response.val.source = "fallback")
  /\ [][ /\ pc \in {"ask_AI_draft", "history_draft"} => answer' = answer
         /\ answer' # answer => (pc \in {"overview_call", "ask_AI_verify", "history_verify"}
                                   /\ final' # final /\ pc' = "END") ]_vars

C25_Witness ==
  /\ mode = "ask_AI" /\ pc = "returned" /\ response.val.source = "graph"
  /\ draft_text = Val(<<"a">>) /\ answer = Val(<<"b">>) /\ response.val.text = <<"b">>
====
